---- MODULE Spec2Model ----
(***************************************************************************)
(* The secrets vault of iagosergiop93/cofre: one file in the home          *)
(* directory holding a JSON envelope {version, salt, nonce, data}, where   *)
(* data is the AES-256-GCM sealing of the JSON text of the secret mapping  *)
(* under an Argon2id key derived from the master password and the salt.    *)
(* Each CLI invocation (init, set, get, list, delete) is a process that    *)
(* stats the file, prompts, loads, mutates and saves.                      *)
(*                                                                         *)
(* Cryptography is modelled symbolically: a derived key is the pair        *)
(* (password, salt), a sealed box names the key, the nonce and the         *)
(* plaintext it was made from, and opening it succeeds only with that key  *)
(* and nonce on unmodified bytes.  Byte strings carry a flip mark, so a    *)
(* string with one bit changed differs from every intact one.              *)
(***************************************************************************)
EXTENDS Integers, Sequences, FiniteSets, TLC

\* ---------------------------------------------------------------- bounds
MaxCmds == 4      \* invocations begun in one behaviour
MaxFewCmds == 3   \* the same, where invocations overlap or the file is tampered with
MaxFaults == 1    \* injected faults: I/O errors, RNG errors, kills
MaxListCmds == 2  \* the same, on a vault that starts with up to three keys
MaxFlips == 1     \* single-bit changes made to the stored file by the environment

\* ------------------------------------------------------ program constants
SaltSize == 16
NonceSize == 12
TagSize == 16     \* the GCM tag that Seal appends to the ciphertext
MinPasswordLen == 8
FormatVersion == 1
EnvelopeOverhead == 61   \* bytes of the indented envelope text around its three strings

Procs == {1, 2}
Passwords == {"longpassword1", "wrong-pw", "short"}
Keys == {"a", "b"}
ListKeys == {"a", "b", "c"}
\* the key arguments the shell can pass: os.Args[2] may be the empty string
Args == ListKeys \cup {""}
\* a byte string that is not valid UTF-8 (the single byte 0xFF), as the terminal
\* hands it over, and the text U+FFFD that encoding/json writes in its place
Invalid == "<ff>"
Replacement == "<fffd>"
TextValues == {"", "x"}
\* a password of 4 characters of 2 bytes each (e-acute four times), as the
\* terminal hands it over in UTF-8
Accented == "<c3a9><c3a9><c3a9><c3a9>"
InitPasswords == Passwords \cup {Accented}
\* len(s): the number of bytes of a string
ByteLen(str) == CASE str = Accented -> 8 [] str = Invalid -> 1 [] str = Replacement -> 3
                  [] OTHER -> Len(str)
Values == TextValues \cup {Invalid}
\* the values crypto/rand can return for a salt
Salts == {1, 2}

\* sort.Strings / encoding/json order of the keys
Rank(k) == CASE k = "a" -> 1 [] k = "b" -> 2 [] k = "c" -> 3 [] OTHER -> 0

\* ------------------------------------------------------------ byte strings
Bytes(v) == [v |-> v, flip |-> 0]
NoBytes == [v |-> 0, flip |-> 0]

\* ------------------------------------------------------------- secret map
EmptyMap == [k \in {} |-> ""]
Put(m, k, v) == [x \in (DOMAIN m) \cup {k} |-> IF x = k THEN v ELSE m[x]]
Remove(m, k) == [x \in (DOMAIN m) \ {k} |-> m[x]]

MinKey(S) == CHOOSE k \in S : \A j \in S : Rank(k) <= Rank(j)
RECURSIVE SortedKeys(_)
SortedKeys(S) == IF S = {} THEN <<>>
                 ELSE LET k == MinKey(S) IN <<k>> \o SortedKeys(S \ {k})

\* json.Marshal(SecretsData): {"secrets":{"k":"v",...}} with the keys in order,
\* kept as the sequence of its members
\* its strings are coerced to valid UTF-8, invalid bytes becoming U+FFFD
ToValidUTF8(str) == IF str = Invalid THEN Replacement ELSE str
Marshal(m) == LET ks == SortedKeys(DOMAIN m)
              IN [i \in 1..Len(ks) |-> <<ToValidUTF8(ks[i]), ToValidUTF8(m[ks[i]])>>]
\* json.Unmarshal into map[string]string: members in order, a later one wins
RECURSIVE UnmarshalFrom(_, _)
UnmarshalFrom(t, m) == IF t = <<>> THEN m
                       ELSE UnmarshalFrom(Tail(t), Put(m, Head(t)[1], Head(t)[2]))
Unmarshal(t) == UnmarshalFrom(t, EmptyMap)
\* byte length of the marshalled text
RECURSIVE MembersLen(_)
MembersLen(t) == IF t = <<>> THEN 0
                 ELSE ByteLen(Head(t)[1]) + ByteLen(Head(t)[2]) + 5
                      + (IF Len(t) > 1 THEN 1 ELSE 0) + MembersLen(Tail(t))
JsonLen(t) == 14 + MembersLen(t)

\* ---------------------------------------------------------------- crypto
DeriveKey(password, salt) == <<password, salt>>
\* gcm.Seal(nil, nonce, plaintext, nil): ciphertext with the tag appended
Seal(key, nonce, plaintext) ==
    [key |-> key, nonce |-> nonce, pt |-> plaintext, flip |-> 0]
NoBox == Seal(DeriveKey("", NoBytes), NoBytes, <<>>)
BoxLen(box) == JsonLen(box.pt) + TagSize
\* gcm.Open: the tag verifies only for the sealing key and nonce on intact bytes
DecryptBad(ciphertext, nonce, key) ==
    [ok |-> ciphertext.flip = 0, pt |-> ciphertext.pt]
Decrypt(ciphertext, nonce, key) ==
    IF ciphertext.key = key /\ ciphertext.nonce = nonce /\ ciphertext.flip = 0
    THEN [ok |-> TRUE, pt |-> ciphertext.pt]
    ELSE [ok |-> FALSE, pt |-> <<>>]

\* ----------------------------------------------------------------- base64
\* The text of a field: the bytes it encodes, whether the unused trailing bits
\* of its last character are zero (slack = 0), and whether every character is
\* in the alphabet and the padding is in place (ok).
EncodeToString(b) == [b |-> b, slack |-> 0, ok |-> TRUE]
\* base64.StdEncoding is not Strict: the trailing bits are not looked at
DecodeString(f) == [ok |-> f.ok, b |-> f.b]
\* A text of n bytes with n % 3 = 1 ends in a character with 4 unused bits, and
\* every such character has a neighbour at one bit that encodes the same bytes
\* (A-C, Q-S, g-o, w-7).
HasSlack(n) == n % 3 = 1

\* --------------------------------------------------------------- the file
NoField == EncodeToString(NoBytes)
NoBoxField == EncodeToString(NoBox)
Absent == [kind |-> "absent", len |-> 0, version |-> 0,
           salt |-> NoField, nonce |-> NoField, data |-> NoBoxField]
Torn(kind, n) == [Absent EXCEPT !.kind = kind, !.len = n]
\* 4 * ceil(n / 3)
B64Len(n) == 4 * ((n + 2) \div 3)
\* json.MarshalIndent(vault, "", "  "): 4 members on their own lines
TextLen(box) == EnvelopeOverhead + B64Len(SaltSize) + B64Len(NonceSize) + B64Len(BoxLen(box))
Envelope(salt, nonce, box) ==
    [kind |-> "full", len |-> TextLen(box), version |-> FormatVersion,
     salt |-> EncodeToString(salt), nonce |-> EncodeToString(nonce),
     data |-> EncodeToString(box)]

\* LoadVault(password) on file f: (error, mapping, salt)
Failed(e) == [err |-> e, data |-> EmptyMap, salt |-> NoBytes]
LoadVaultBad(f, password) ==
    IF f.kind = "full" /\ f.salt.ok /\ f.nonce.ok /\ f.data.ok
    THEN LET opened == Decrypt(f.data.b, f.nonce.b, DeriveKey(password, f.salt.b))
         IN IF opened.ok
            THEN [err |-> "none", data |-> Unmarshal(opened.pt), salt |-> f.nonce.b]
            ELSE Failed("decrypt")
    ELSE Failed(IF f.kind = "absent" THEN "read" ELSE "parse")
LoadVault(f, password) ==
    IF f.kind = "absent" THEN Failed("read")
    ELSE IF f.kind # "full" THEN Failed("parse")
    ELSE LET salt == DecodeString(f.salt)
             nonce == DecodeString(f.nonce)
             ciphertext == DecodeString(f.data)
         IN IF ~salt.ok THEN Failed("decode")
            ELSE IF ~nonce.ok THEN Failed("decode")
            ELSE IF ~ciphertext.ok THEN Failed("decode")
            ELSE LET key == DeriveKey(password, salt.b)
                     opened == Decrypt(ciphertext.b, nonce.b, key)
                 IN IF ~opened.ok THEN Failed("decrypt")
                    ELSE [err |-> "none", data |-> Unmarshal(opened.pt),
                          salt |-> salt.b]

\* gcm.Open has one error (errOpen) for every way the tag fails to verify
OpenErrorBad(ciphertext, nonce, key) ==
    IF ciphertext.key # key THEN "cipher: wrong key"
    ELSE "cipher: message authentication failed"
OpenError(ciphertext, nonce, key) == "cipher: message authentication failed"
\* the text of LoadVault's error, as the chain of its wrapped messages
ErrorText(f, password) ==
    CASE LoadVault(f, password).err = "none" -> <<>>
      [] LoadVault(f, password).err = "read" -> <<"failed to read vault file">>
      [] LoadVault(f, password).err = "parse" -> <<"failed to parse vault file">>
      [] LoadVault(f, password).err = "decode" ->
           <<IF ~DecodeString(f.salt).ok THEN "failed to decode salt"
             ELSE IF ~DecodeString(f.nonce).ok THEN "failed to decode nonce"
             ELSE "failed to decode data">>
      [] LoadVault(f, password).err = "decrypt" ->
           <<"failed to decrypt vault (wrong password?)", "failed to decrypt",
             OpenError(DecodeString(f.data).b, DecodeString(f.nonce).b,
                       DeriveKey(password, DecodeString(f.salt).b))>>
\* the command prints "Error: " and the text, and exits with status 1
ExitStatus(e) == IF e = "none" THEN 0 ELSE 1

\* os.WriteFile writes text t of length n at offset 0 of what the file holds
\* after its O_TRUNC open (which may be what another writer has put there since)
OverlayBad(f, t, n) ==
    IF n = t.len /\ n >= f.len THEN t ELSE Absent
Overlay(f, t, n) ==
    IF n >= f.len
    THEN (IF n = t.len THEN t ELSE Torn(IF n = 0 THEN "empty" ELSE "partial", n))
    ELSE Torn("mixed", f.len)

\* ------------------------------------------------------------------ state
VARIABLES
    file,      \* the vault file
    proc,      \* per invocation: position, arguments, locals, outcome
    abs,       \* the vault as the commands that completed describe it
    drawn,     \* the nonces crypto/rand has handed out
    ncmds, nfaults, nflips

vars == <<file, proc, abs, drawn, ncmds, nfaults, nflips>>

Idle == [pc |-> "idle", cmd |-> "none", arg |-> "", pw |-> "", value |-> "",
         loaded |-> FALSE, data |-> EmptyMap, salt |-> NoBytes,
         pend |-> Absent, seen |-> Absent, err |-> "none", out |-> <<>>]
NoVault == [made |-> FALSE, pw |-> "", salt |-> NoBytes, map |-> EmptyMap]

Init ==
    /\ file = Absent
    /\ proc = [p \in Procs |-> Idle]
    /\ abs = NoVault
    /\ drawn = {}
    /\ ncmds = 0
    /\ nfaults = 0
    /\ nflips = 0

Cmds == {"init", "set", "get", "list", "delete"}
\* help prints the usage and touches nothing
AllCmds == Cmds \cup {"help"}
KeyCmds == {"set", "get", "delete"}
Running(p) == proc[p].pc \notin {"idle", "done"}

\* a fault is injected only while the budget lasts
Fault(f) == IF f = "ok" THEN nfaults' = nfaults
            ELSE nfaults < MaxFaults /\ nfaults' = nfaults + 1
Done(r, e) == [r EXCEPT !.pc = "done", !.err = e]

\* VaultExists: os.Stat of the vault path
VaultExistsBad(f) == TRUE
VaultExists(f) == f.kind # "absent"

\* main + the existence pre-check of the command
Begin(p, c, k) ==
    /\ ~Running(p)
    /\ ncmds < MaxCmds
    /\ ncmds' = ncmds + 1
    /\ \E f \in {"ok", "home"} :
         /\ Fault(f)
         /\ c = "help" => f = "ok"
         /\ LET r == [Idle EXCEPT !.cmd = c, !.arg = k]
                e == IF f = "home" THEN "home"
                     ELSE IF c = "init" /\ VaultExists(file) THEN "exists"
                     ELSE IF c \notin {"init", "help"} /\ ~VaultExists(file) THEN "notexist"
                     ELSE "none"
            IN proc' = [proc EXCEPT ![p] =
                 IF e # "none" \/ c = "help" THEN Done(r, e)
                 ELSE [r EXCEPT !.pc = IF c = "init" THEN "create" ELSE "unlock"]]
    /\ UNCHANGED <<file, abs, drawn, nflips>>

\* rand.Read for a nonce: 12 bytes that it has not returned before (a repeat
\* has probability 2^-96 and is left out, as key and tag collisions are)
RandRead(S) == Cardinality(S) + 1
\* Encrypt: the nonce is made and filled inside the call; the one of the stored
\* envelope is not among its inputs
NewNonceBad(stored, random) == IF stored = NoBytes THEN random ELSE stored
NewNonce(stored, random) == random

\* SaveVault up to and including the O_TRUNC open of os.WriteFile, for the
\* invocation record r: the path, the text, the key, the nonce, the envelope
SaveOpen(p, r, d, password, salt) ==
    \E f \in {"ok", "home", "rand", "open"} :
       /\ Fault(f)
       /\ drawn' = IF f \in {"ok", "open"} THEN drawn \cup {RandRead(drawn)} ELSE drawn
       /\ LET nonce == NewNonce(DecodeString(file.nonce).b, Bytes(RandRead(drawn)))
              box == Seal(DeriveKey(password, salt), nonce, Marshal(d))
              q == [r EXCEPT !.pw = password, !.data = d, !.salt = salt,
                             !.seen = file]
          IN IF f = "ok"
             THEN /\ file' = Torn("empty", 0)
                  /\ proc' = [proc EXCEPT ![p] =
                        [q EXCEPT !.pc = "write",
                                  !.pend = Envelope(salt, nonce, box)]]
             ELSE /\ file' = file
                  /\ proc' = [proc EXCEPT ![p] =
                        Done(q, CASE f = "home" -> "home"
                                  [] f = "rand" -> "encrypt"
                                  [] f = "open" -> "write")]

\* cmdInit after the pre-check: the two prompts, the checks, CreateVault
InitCreate(p, PW) ==
    /\ proc[p].pc = "create"
    /\ \E password \in PW, confirm \in PW :
         LET r == [proc[p] EXCEPT !.pw = password]
         IN IF ByteLen(password) < MinPasswordLen
            THEN proc' = [proc EXCEPT ![p] = Done(r, "short")]
                 /\ UNCHANGED <<file, drawn, nfaults>>
            ELSE IF password # confirm
            THEN proc' = [proc EXCEPT ![p] = Done(r, "mismatch")]
                 /\ UNCHANGED <<file, drawn, nfaults>>
            ELSE \* CreateVault: GenerateSalt, the empty mapping, SaveVault
                 \E s \in Salts : SaveOpen(p, r, EmptyMap, password, Bytes(s))
    /\ UNCHANGED <<abs, ncmds, nflips>>

\* data.Secrets[key] = value
SetEntry(d, k, v) == [x \in (DOMAIN d) \cup {k} |-> IF x = k THEN v ELSE d[x]]
\* delete(data.Secrets, key)
DeleteEntry(d, k) == [x \in (DOMAIN d) \ {k} |-> d[x]]

\* The commands after a successful load; u is the invocation with the loaded
\* mapping and salt.
CmdGetBad(u) ==
    IF u.arg \in DOMAIN u.data
    THEN [u EXCEPT !.pc = "save", !.out = <<u.data[u.arg]>>]
    ELSE Done(u, "notfound")
CmdGet(u) ==
    IF u.arg \in DOMAIN u.data
    THEN Done([u EXCEPT !.out = <<u.data[u.arg]>>], "none")
    ELSE Done(u, "notfound")
\* the keys in an order in which ranging over the map can give them
RECURSIVE RangeKeys(_)
RangeKeys(S) == IF S = {} THEN <<>>
                ELSE LET k == CHOOSE x \in S : \A j \in S : Rank(x) >= Rank(j)
                     IN <<k>> \o RangeKeys(S \ {k})
CmdListBad(u) ==
    Done([u EXCEPT !.out = IF DOMAIN u.data = {} THEN <<"No secrets stored">>
                            ELSE RangeKeys(DOMAIN u.data)], "none")
CmdList(u) ==
    Done([u EXCEPT !.out = IF DOMAIN u.data = {} THEN <<"No secrets stored">>
                            ELSE SortedKeys(DOMAIN u.data)], "none")
CmdDeleteBad(u) == [u EXCEPT !.pc = "save", !.data = DeleteEntry(u.data, u.arg)]
CmdDelete(u) ==
    IF u.arg \in DOMAIN u.data
    THEN [u EXCEPT !.pc = "save", !.data = DeleteEntry(u.data, u.arg)]
    ELSE Done(u, "notfound")
CmdSet(u, v) ==
    [u EXCEPT !.pc = "save", !.value = v, !.data = SetEntry(u.data, u.arg, v)]

\* what os.ReadFile leaves of the file f it has read
FileAfterLoadBad(f, l) == IF l.err = "none" THEN f ELSE Torn("empty", 0)
FileAfterLoad(f, l) == f

\* the password prompt, LoadVault, and the command's work up to its SaveVault
Unlock(p, V) ==
    /\ proc[p].pc = "unlock"
    /\ \E password \in Passwords, f \in {"ok", "home"}, v \in V :
         /\ Fault(f)
         /\ proc[p].cmd # "set" => v = ""
         /\ LET r == [proc[p] EXCEPT !.pw = password]
                l == IF f = "home" THEN Failed("home") ELSE LoadVault(file, password)
                u == [r EXCEPT !.loaded = TRUE, !.data = l.data, !.salt = l.salt]
            IN /\ proc' = [proc EXCEPT ![p] =
                     IF l.err # "none" THEN Done(r, l.err)
                     ELSE CASE u.cmd = "get" -> CmdGet(u)
                            [] u.cmd = "list" -> CmdList(u)
                            [] u.cmd = "delete" -> CmdDelete(u)
                            [] u.cmd = "set" -> CmdSet(u, v)]
               /\ file' = FileAfterLoad(file, l)
    /\ UNCHANGED <<abs, drawn, ncmds, nflips>>

\* cmdSet / cmdDelete: SaveVault(data, password, salt)
Save(p) ==
    /\ proc[p].pc = "save"
    /\ SaveOpen(p, proc[p], proc[p].data, proc[p].pw, proc[p].salt)
    /\ UNCHANGED <<abs, ncmds, nflips>>

\* what a completed command did to the vault, as its user understands it
Effect(r) ==
    CASE r.cmd = "init" ->
           [made |-> TRUE, pw |-> r.pw, salt |-> r.salt, map |-> EmptyMap]
      [] r.cmd = "set" -> [abs EXCEPT !.map = Put(abs.map, r.arg, r.value)]
      [] r.cmd = "delete" -> [abs EXCEPT !.map = Remove(abs.map, r.arg)]

\* the write and close of os.WriteFile, and SaveVault's return
Write(p) ==
    /\ proc[p].pc = "write"
    /\ \E f \in {"ok", "short", "none"} :
         /\ Fault(f)
         /\ LET t == proc[p].pend
                n == CASE f = "ok" -> t.len [] f = "short" -> t.len \div 2
                       [] f = "none" -> 0
            IN /\ file' = Overlay(file, t, n)
               /\ proc' = [proc EXCEPT ![p] =
                     Done(proc[p], IF f = "ok" THEN "none" ELSE "write")]
               /\ abs' = IF f = "ok" THEN Effect(proc[p]) ELSE abs
    /\ UNCHANGED <<drawn, ncmds, nflips>>

\* the process is killed (or the machine stops) between two steps
Kill(p) ==
    /\ Running(p)
    /\ Fault("kill")
    /\ proc' = [proc EXCEPT ![p] = Done(proc[p], "killed")]
    /\ UNCHANGED <<file, abs, drawn, ncmds, nflips>>

\* one bit of the stored salt, nonce or data string changes
FlipField(fld, how, n) ==
    CASE how = "bytes" -> [fld EXCEPT !.b.flip = @ + 1]
      [] how = "slack" -> [fld EXCEPT !.slack = 1]
      [] how = "char" -> [fld EXCEPT !.ok = FALSE]
CanFlip(fld, how, n) ==
    CASE how = "bytes" -> TRUE
      [] how = "slack" -> HasSlack(n) /\ fld.slack = 0
      [] how = "char" -> fld.ok
Flip ==
    /\ file.kind = "full"
    /\ nflips < MaxFlips
    /\ nflips' = nflips + 1
    /\ \E how \in {"bytes", "slack", "char"} :
         \/ /\ CanFlip(file.salt, how, SaltSize)
            /\ file' = [file EXCEPT !.salt = FlipField(@, how, SaltSize)]
         \/ /\ CanFlip(file.nonce, how, NonceSize)
            /\ file' = [file EXCEPT !.nonce = FlipField(@, how, NonceSize)]
         \/ /\ CanFlip(file.data, how, BoxLen(file.data.b))
            /\ file' = [file EXCEPT !.data = FlipField(@, how, BoxLen(file.data.b))]
    /\ UNCHANGED <<proc, abs, drawn, ncmds, nfaults>>

Step(p) ==
    \/ \E c \in AllCmds : \E k \in (IF c \in KeyCmds THEN Keys ELSE {""}) : Begin(p, c, k)
    \/ InitCreate(p, InitPasswords)
    \/ Unlock(p, Values)
    \/ Save(p)
    \/ Write(p)
    \/ Kill(p)

\* The caller contract: one invocation runs to its end (or is killed) before
\* the next begins.
Next == Step(1)
Spec == Init /\ [][Next]_vars

\* a short run of invocations with no fault injected and text for values
FewStep(p) ==
    \/ \E c \in Cmds : \E k \in (IF c \in KeyCmds THEN Keys ELSE {""}) :
          ncmds < MaxFewCmds /\ Begin(p, c, k)
    \/ InitCreate(p, Passwords)
    \/ Unlock(p, TextValues)
    \/ Save(p)
    \/ Write(p)
InitFew == Init!1 /\ Init!2 /\ Init!3 /\ Init!4 /\ Init!5 /\ nfaults = MaxFaults /\ Init!7

\* one invocation at a time on a file whose stored strings may change by a bit
\* between (and during) invocations
FlipNext == FewStep(1) \/ Flip
SpecFlip == InitFew /\ [][FlipNext]_vars

\* invocations that overlap in time
ParNext == \E p \in Procs : FewStep(p)
SpecPar == InitFew /\ [][ParNext]_vars

\* a vault that init and some sets have left, holding the mapping m
Stored(m, password, s, n) ==
    Envelope(Bytes(s), Bytes(n), Seal(DeriveKey(password, Bytes(s)), Bytes(n), Marshal(m)))
InitList ==
    \E S \in SUBSET ListKeys : \E m \in [S -> TextValues] : \E s \in Salts :
       /\ file = Stored(m, "longpassword1", s, Cardinality(S) + 1)
       /\ proc = [p \in Procs |-> Idle]
       /\ abs = [made |-> TRUE, pw |-> "longpassword1", salt |-> Bytes(s), map |-> m]
       /\ drawn = 1..(Cardinality(S) + 1)
       /\ ncmds = 0
       /\ nfaults = MaxFaults
       /\ nflips = 0
\* set, list and delete on it, one invocation at a time
ListNext ==
    \/ \E c \in {"set", "list", "delete"} :
          \E k \in (IF c \in KeyCmds THEN Args ELSE {""}) :
             ncmds < MaxListCmds /\ Begin(1, c, k)
    \/ Unlock(1, TextValues)
    \/ Save(1)
    \/ Write(1)
SpecList == InitList /\ [][ListNext]_vars

\* ------------------------------------------------------------------ claims
Correct(p) == proc[p].pw = abs.pw
LoadErrors == {"read", "parse", "decode", "decrypt", "home"}
\* the step in which invocation p leaves its password prompt and load
Loads(p) == proc[p].pc = "unlock" /\ proc'[p].pc # "unlock" /\ proc'[p].err # "killed"
\* bits of a stored string that differ from what was written
Changed(fld) == fld.b.flip + fld.slack + (IF fld.ok THEN 0 ELSE 1)
OneBitFlipped(f) ==
    f.kind = "full" /\ Changed(f.salt) + Changed(f.nonce) + Changed(f.data) = 1

\* C1: SaveVault is all-or-nothing: from the moment a SaveVault has opened the
\* file, in every state (also after a kill or a failed write) the file holds
\* the complete envelope it held at the call or the complete new envelope,
\* never an empty or cut one.
C1_SaveAllOrNothing ==
    \A p \in Procs :
       proc[p].pend # Absent => file \in {proc[p].seen, proc[p].pend}

\* C2: when SaveVault returns an error on a vault that held a valid envelope,
\* the file is the envelope it held before the call and still loads with the
\* password.
C2_FailedSaveKeepsEnvelope ==
    \A p \in Procs :
       (/\ proc[p].pc = "done"
        /\ proc[p].err \in {"home", "encrypt", "write"}
        /\ proc[p].seen.kind = "full")
       => /\ file = proc[p].seen
          /\ LoadVault(file, proc[p].pw).err = "none"

\* C3: CreateVault called while a vault file is present fails with
\* VaultAlreadyExists and leaves the file untouched.
C3_CreateRefusesExisting ==
    \A p \in Procs :
       (proc[p].cmd = "init" /\ proc[p].seen.kind = "full")
       => proc[p].err = "exists" /\ file = proc[p].seen

\* C4: on a vault created with password P, an invocation that enters any other
\* password gets no mapping and no salt and ends in failure, which is the
\* authentication failure whenever the file holds a complete envelope; this
\* after any saves made under P.
C4_WrongPasswordFails ==
    \A p \in Procs :
       (/\ abs.made
        /\ proc[p].cmd \in {"set", "get", "list", "delete"}
        /\ proc[p].pw # ""
        /\ ~Correct(p))
       => /\ proc[p].pc = "done"
          /\ ~proc[p].loaded
          /\ proc[p].data = EmptyMap /\ proc[p].salt = NoBytes /\ proc[p].out = <<>>
          /\ proc[p].err \in {"decrypt", "parse", "home"}
          /\ (file.kind = "full" /\ proc[p].err # "home") => proc[p].err = "decrypt"
C4_Witness ==
    \E p \in Procs :
       /\ abs.made /\ abs.map # EmptyMap
       /\ proc[p].cmd = "set" /\ proc[p].pw # "" /\ ~Correct(p)
       /\ proc[p].err = "decrypt"

\* C5: with one bit of the stored salt, nonce or data string changed, a load
\* with the correct password fails (authentication or decoding).
C5_FlipDetected ==
    [][\A p \in Procs :
         (Loads(p) /\ OneBitFlipped(file) /\ proc'[p].pw = abs.pw)
         => ~proc'[p].loaded /\ proc'[p].err \in {"decrypt", "decode", "parse"}]_vars

\* C6: a load that fails leaves the file as it was, so that a load with the
\* vault's password gives after it what it gave before it.
C6_FailedLoadKeepsFile ==
    [][\A p \in Procs :
         (Loads(p) /\ proc'[p].err \in LoadErrors)
         => /\ file' = file
            /\ LoadVault(file', abs.pw) = LoadVault(file, abs.pw)]_vars
C6_Witness ==
    \E p \in Procs :
       /\ proc[p].cmd = "get" /\ proc[p].pc = "done" /\ proc[p].err = "decrypt"
       /\ abs.map # EmptyMap
       /\ LoadVault(file, abs.pw) = [err |-> "none", data |-> abs.map, salt |-> abs.salt]

\* C7: after a successful SaveVault(M, P, S) (by init with the empty mapping, by
\* set or by delete), LoadVault(P) returns exactly M and S, and S is the salt in
\* the file.
C7_RoundTrip ==
    \A p \in Procs :
       (/\ proc[p].pc = "done" /\ proc[p].err = "none"
        /\ proc[p].cmd \in {"init", "set", "delete"})
       => /\ LoadVault(file, proc[p].pw) =
               [err |-> "none", data |-> proc[p].data, salt |-> proc[p].salt]
          /\ DecodeString(file.salt).b = proc[p].salt

\* C8: the stored vault is the key-value map that the completed init, set and
\* delete commands describe: a complete file loads to that map, and a get that
\* has loaded it prints the value of its key there, or ends not-found when the
\* key is not there.
C8_KeyValueMap ==
    /\ (abs.made /\ file.kind = "full")
       => LoadVault(file, abs.pw) = [err |-> "none", data |-> abs.map, salt |-> abs.salt]
    /\ \A p \in Procs :
         (proc[p].cmd = "get" /\ proc[p].pc = "done")
         => /\ (file.kind = "full" /\ Correct(p) /\ proc[p].err \notin {"home", "killed"})
               => proc[p].loaded
            /\ proc[p].loaded =>
                 IF proc[p].arg \in DOMAIN abs.map
                 THEN proc[p].err = "none" /\ proc[p].out = <<abs.map[proc[p].arg]>>
                 ELSE proc[p].err = "notfound" /\ proc[p].out = <<>>

\* C9: a delete whose key is not in the loaded mapping ends not-found in that
\* step, with no SaveVault call and the file unchanged.
C9_DeleteMissingKey ==
    [][\A p \in Procs :
         (/\ Loads(p) /\ proc[p].cmd = "delete" /\ proc'[p].loaded
          /\ proc[p].arg \notin DOMAIN LoadVault(file, proc'[p].pw).data)
         => /\ proc'[p].pc = "done" /\ proc'[p].err = "notfound"
            /\ proc'[p].pend = Absent /\ proc'[p].seen = Absent
            /\ file' = file /\ abs' = abs]_vars
C9_Witness ==
    \E p \in Procs :
       /\ proc[p].cmd = "delete" /\ proc[p].pc = "done" /\ proc[p].loaded
       /\ proc[p].err = "notfound" /\ abs.map # EmptyMap /\ file.kind = "full"

\* C10: once the vault is created, every complete envelope on disk carries the
\* salt that CreateVault generated.
C10_SaltFixed ==
    (abs.made /\ file.kind = "full") => file.salt = EncodeToString(abs.salt)
C10_Witness ==
    \E p \in Procs :
       /\ proc[p].cmd = "delete" /\ proc[p].pc = "done" /\ proc[p].err = "none"
       /\ file.kind = "full" /\ file.salt = EncodeToString(abs.salt)
       /\ file.nonce # EncodeToString(abs.salt)

\* the step in which a SaveVault of invocation p has sealed the mapping and
\* opened the file
Seals(p) == proc[p].pc \in {"create", "save"} /\ proc'[p].pc = "write"

\* C11: the nonce of every SaveVault is generated in that call and is not the
\* one of the stored envelope: it is none of the nonces handed out before (so
\* none that an earlier save has sealed with or persisted), and two successive
\* saves never persist the same nonce.
C11_FreshNonce ==
    [][\A p \in Procs :
         Seals(p) =>
           LET nonce == DecodeString(proc'[p].pend.nonce).b
           IN /\ nonce.v \notin drawn /\ nonce.v \in drawn'
              /\ proc'[p].pend.data.b.nonce = nonce
              /\ file.kind = "full" => nonce # DecodeString(file.nonce).b
              /\ \A q \in Procs : proc[q].pend # Absent =>
                    nonce # DecodeString(proc[q].pend.nonce).b]_vars
C11_Witness ==
    \E p \in Procs :
       /\ proc[p].cmd \in {"set", "delete"} /\ proc[p].pc = "done" /\ proc[p].err = "none"
       /\ proc[p].seen.kind = "full" /\ file = proc[p].pend
       /\ file.nonce # proc[p].seen.nonce
       /\ file.salt = proc[p].seen.salt

\* what an observer of a load sees: the error kind, its text, the exit status
Signal(f, password) ==
    [kind |-> LoadVault(f, password).err, message |-> ErrorText(f, password),
     exit |-> ExitStatus(LoadVault(f, password).err)]
\* the file with the bytes of its three strings as they were written
Intact(f) == [f EXCEPT !.salt.b.flip = 0, !.nonce.b.flip = 0, !.data.b.flip = 0]
\* the strings still decode, to bytes of which some differ from those written
BytesAltered(f) ==
    /\ f.kind = "full" /\ f.salt.ok /\ f.nonce.ok /\ f.data.ok
    /\ f.salt.b.flip + f.nonce.b.flip + f.data.b.flip > 0

C13_LastWriterWins ==
    \A p, q \in Procs :
       (/\ p # q
        /\ proc[p].pc = "done" /\ proc[p].err = "none" /\ proc[p].cmd \in {"set", "delete"}
        /\ proc[q].pc = "done" /\ proc[q].err = "none" /\ proc[q].cmd \in {"set", "delete"})
       => /\ file \in {proc[p].pend, proc[q].pend}
          /\ LoadVault(file, abs.pw).err = "none"

\* the step in which invocation p is started
Begins(p) ==
    /\ ncmds' = ncmds + 1 /\ ~Running(p) /\ proc'[p].cmd \in AllCmds
    /\ \A q \in Procs \ {p} : proc'[q] = proc[q]

\* C14: with no vault file, a set, get, list or delete ends when it is started,
\* with an error and exit status 1, without a password having been asked for and
\* with the file still absent; the file stops being absent only in a step of an
\* init.
C14_NoVaultNoPrompt ==
    [][/\ \A p \in Procs :
            (/\ Begins(p) /\ proc'[p].cmd \in {"set", "get", "list", "delete"}
             /\ file.kind = "absent")
            => /\ proc'[p].pc = "done"
               /\ proc'[p].err \in {"notexist", "home"}
               /\ ExitStatus(proc'[p].err) = 1
               /\ proc'[p].pw = "" /\ ~proc'[p].loaded
               /\ file'.kind = "absent"
       /\ (file.kind = "absent" /\ file'.kind # "absent")
            => \E p \in Procs : proc[p].cmd = "init" /\ proc[p].pc = "create"]_vars
C14_Witness ==
    \E p \in Procs :
       /\ proc[p].cmd = "delete" /\ proc[p].pc = "done" /\ proc[p].err = "notexist"
       /\ proc[p].pw = "" /\ file = Absent /\ ncmds > 1

\* the line that list has printed for key number i comes before that for j
Before(x, y) == Rank(x) < Rank(y)
ListDone(p) == proc[p].cmd = "list" /\ proc[p].pc = "done" /\ proc[p].err = "none"

\* C15 (as stated): list prints exactly the keys of the stored mapping, each
\* once, in ascending order, and nothing else.
C15_ListPrintsKeys ==
    \A p \in Procs :
       ListDone(p) =>
          /\ {proc[p].out[i] : i \in 1..Len(proc[p].out)} = DOMAIN abs.map
          /\ Len(proc[p].out) = Cardinality(DOMAIN abs.map)
          /\ \A i, j \in 1..Len(proc[p].out) :
                i < j => Before(proc[p].out[i], proc[p].out[j])
\* C15 (amended): the same when the mapping has a key; for the empty mapping
\* list prints the one line "No secrets stored".  Either way the output is
\* fixed by the set of keys.
C15_ListPrintsKeysOrNotice ==
    \A p \in Procs :
       ListDone(p) =>
          IF DOMAIN abs.map = {} THEN proc[p].out = <<"No secrets stored">>
          ELSE /\ {proc[p].out[i] : i \in 1..Len(proc[p].out)} = DOMAIN abs.map
               /\ Len(proc[p].out) = Cardinality(DOMAIN abs.map)
               /\ \A i, j \in 1..Len(proc[p].out) :
                     i < j => Before(proc[p].out[i], proc[p].out[j])
C15_Witness ==
    \E p \in Procs :
       /\ ListDone(p) /\ proc[p].out = <<"a", "b", "c">>
       /\ abs.map["a"] = "x" /\ abs.map["c"] = ""

\* C16: the mapping that LoadVault returns from the stored vault has no
\* empty-string key, whatever key arguments set and delete were given.
C16_NoEmptyKey ==
    (abs.made /\ file.kind = "full")
    => "" \notin DOMAIN LoadVault(file, abs.pw).data

\* C17: once the vault file is there, it is there after every step of every
\* command (init, set, get, list, delete, help), failed, killed or successful.
C17_NeverRemoved ==
    [][file.kind # "absent" => file'.kind # "absent"]_vars
C17_Witness ==
    \E p \in Procs :
       /\ proc[p].cmd = "help" /\ proc[p].pc = "done"
       /\ abs.made /\ file.kind = "partial" /\ nfaults > 0

\* C18: after init with password P, every complete envelope on disk is sealed
\* under the key derived from P and the vault's salt, and whenever no command is
\* running (none having been killed) LoadVault(P) succeeds.
C18_PasswordFixed ==
    abs.made =>
       /\ file.kind = "full" => file.data.b.key = DeriveKey(abs.pw, abs.salt)
       /\ (\A p \in Procs : ~Running(p) /\ proc[p].err # "killed")
            => LoadVault(file, abs.pw).err = "none"

\* C19: no step of a get or of a list, successful or failed, calls SaveVault or
\* changes the file.
C19_ReadOnly ==
    [][\A p \in Procs :
         (proc'[p].cmd \in {"get", "list"} /\ proc'[p] # proc[p])
         => /\ file' = file
            /\ proc'[p].pc \notin {"save", "write"}
            /\ proc'[p].pend = Absent /\ proc'[p].seen = Absent
            /\ drawn' = drawn /\ abs' = abs]_vars
C19_Witness ==
    \E p \in Procs :
       /\ proc[p].cmd = "get" /\ proc[p].pc = "done" /\ proc[p].err = "none"
       /\ proc[p].out = <<"x">> /\ file.kind = "full" /\ proc[p].pend = Absent

\* the number of characters of a password
CharLen(str) == IF str = Accented THEN 4 ELSE Len(str)
\* init has called CreateVault (which generates the salt first)
CreateCalled(p) == proc[p].cmd = "init" /\ proc[p].salt # NoBytes

\* C20: init calls CreateVault only with no vault file there and a password of
\* at least 8 characters (entered twice); an init that ends on one of its checks
\* has not called CreateVault and has created no file.
C20_InitChecks ==
    \A p \in Procs :
       /\ CreateCalled(p) =>
             /\ proc[p].seen.kind = "absent"
             /\ CharLen(proc[p].pw) >= MinPasswordLen
       /\ (proc[p].cmd = "init" /\ proc[p].err \in {"exists", "short", "mismatch"})
          => /\ ~CreateCalled(p) /\ proc[p].pend = Absent
             /\ ExitStatus(proc[p].err) = 1
             /\ proc[p].err # "exists" => file.kind = "absent"

====
